---- MODULE Spec2Model ----
(***************************************************************************)
(* finance-ai: a Telegram bot that forwards each inbound message to a      *)
(* generative-AI completion, parses the returned JSON and inserts one row  *)
(* into the "payments" table, replying to the chat with the outcome.       *)
(*                                                                         *)
(* Three versions of the message handler are modelled:                     *)
(*   "index"  : src/src/index.js                 (text only)               *)
(*   "plain"  : src/unnamed/part_001 l.1-164     (text or photo)           *)
(*   "schema" : src/unnamed/part_001 l.166-399   (response schema,         *)
(*              payed_at defaulting, optional sub-fields in the reply)     *)
(*                                                                         *)
(* Every `await` of the handler is one action; the synchronous code that   *)
(* follows an await up to the next one belongs to the same action.         *)
(***************************************************************************)
EXTENDS Integers, Sequences, FiniteSets

VARIABLES
    variant,    \* which version of the handler is deployed
    clock,      \* wall-clock time (read by new Date() and by the store)
    crashed,    \* the process died of an unhandled rejection
    msg,        \* msg[m]: the inbound message handled by handler m
    pc,         \* pc[m]: position of handler m
    contents,   \* contents[m]: what handler m built for the AI call
    parsed,     \* parsed[m]: result of JSON.parse as returned (before any mutation)
    fd,         \* fd[m]: the local financialData object of handler m
    pending,    \* pending[m]: the reply the handler is about to send inside try
    sent,       \* sent[m]: every bot.sendMessage call made by handler m, in order
    rows,       \* the payments table: rows inserted so far
    calls       \* calls[m]: number of getFile / fetch / generateContent / insert calls made,
                \* of inserts for which the store reported an error, and the
                \* clock when processFinancialData was entered

vars == <<variant, clock, crashed, msg, pc, contents, parsed, fd, pending, sent, rows, calls>>

(* ------------------------------ bounds --------------------------------- *)
NumMsgs == 2     \* handlers that may run interleaved
MaxClock == 2    \* wall-clock ticks

Msgs == 1 .. NumMsgs
Solo == {1}
Variants == {"index", "plain", "schema"}
Chats == {"chatA", "chatB"}

(* --------------------------- JavaScript values -------------------------- *)
JNull == [t |-> "null", n |-> 0, s |-> ""]
JUndef == [t |-> "undef", n |-> 0, s |-> ""]
JNum(k) == [t |-> "num", n |-> k, s |-> ""]
JStr(str) == [t |-> "str", n |-> 0, s |-> str]

\* ToBoolean
Truthy(v) ==
    CASE v.t = "num" -> v.n # 0
      [] v.t = "str" -> v.s # ""
      [] OTHER -> FALSE

Digits == <<"0", "1", "2", "3", "4", "5", "6", "7", "8", "9">>

RECURSIVE Dec(_)
Dec(k) == IF k < 10 THEN Digits[k + 1] ELSE Dec(k \div 10) \o Digits[(k % 10) + 1]

\* `${v}` : the string a template literal produces for v
TemplateStr(v) ==
    CASE v.t = "null" -> "null"
      [] v.t = "undef" -> "undefined"
      [] v.t = "num" -> Dec(v.n)
      [] OTHER -> v.s

\* Date#toISOString of the instant k (one instant per day, for readability)
ToISOString(k) == "2025-01-" \o Dec(10 + k) \o "T00:00:00.000Z"

\* new Date(v).toLocaleDateString()
ToLocaleDateString(v) ==
    IF v.t = "str" /\ \E k \in 0 .. (MaxClock + 1) : v.s = ToISOString(k)
    THEN LET k == CHOOSE k \in 0 .. (MaxClock + 1) : v.s = ToISOString(k)
         IN "1/" \o Dec(10 + k) \o "/2025"
    ELSE "Invalid Date"

(* ------------------------ parsed JSON documents ------------------------- *)
\* the optional `data` member: null, absent, or an object with four optional strings
DataNull == [t |-> "null", location |-> JUndef, merchant |-> JUndef,
             payment_method |-> JUndef, notes |-> JUndef]
DataUndef == [t |-> "undef", location |-> JUndef, merchant |-> JUndef,
              payment_method |-> JUndef, notes |-> JUndef]
DataObj(l, mch, pm, nt) == [t |-> "obj", location |-> l, merchant |-> mch,
                            payment_method |-> pm, notes |-> nt]

\* JSON.parse results. Reading a property of a primitive yields undefined, so
\* the members of a non-object are all undefined.
DocObj(v, d, c, p, dt) == [t |-> "obj", prim |-> JUndef, value |-> v, description |-> d,
                           category |-> c, payed_at |-> p, data |-> dt]
DocNull == [t |-> "null", prim |-> JNull, value |-> JUndef, description |-> JUndef,
            category |-> JUndef, payed_at |-> JUndef, data |-> DataUndef]
DocPrim(v) == [t |-> "prim", prim |-> v, value |-> JUndef, description |-> JUndef,
               category |-> JUndef, payed_at |-> JUndef, data |-> DataUndef]

DocTruthy(doc) == doc.t = "obj" \/ (doc.t = "prim" /\ Truthy(doc.prim))

NoDoc == [t |-> "none", prim |-> JUndef, value |-> JUndef, description |-> JUndef,
          category |-> JUndef, payed_at |-> JUndef, data |-> DataUndef]

\* mutant: the test on value left out
ShouldInsertAnyRecord(doc) == DocTruthy(doc)

\* if (financialData && financialData.value !== null)
ShouldInsert(doc) == DocTruthy(doc) /\ doc.value.t # "null"

\* mutant: the fallback applied to null only
DefaultPayedAtNullOnly(doc, now) ==
    IF doc.payed_at.t = "null" /\ doc.t = "obj"
    THEN [doc EXCEPT !.payed_at = JStr(ToISOString(now))]
    ELSE doc

\* if (!financialData.payed_at) financialData.payed_at = new Date().toISOString();
\* (an assignment to a member of a primitive is silently dropped in sloppy mode)
DefaultPayedAt(doc, now) ==
    IF ~Truthy(doc.payed_at) /\ doc.t = "obj"
    THEN [doc EXCEPT !.payed_at = JStr(ToISOString(now))]
    ELSE doc

\* financialData as processFinancialData holds it when the insert is issued
Prepare(v, doc, now) == IF v = "schema" THEN DefaultPayedAt(doc, now) ELSE doc

\* the object handed to supabase.from("payments").insert([...])
InsertPayload(doc) ==
    [value |-> doc.value, description |-> doc.description, category |-> doc.category,
     payed_at |-> doc.payed_at, data |-> doc.data]

\* a row of the payments table; `msg` records which handler issued the insert
Row(m, now, payload) ==
    [msg |-> m, created_at |-> now, value |-> payload.value,
     description |-> payload.description, category |-> payload.category,
     payed_at |-> payload.payed_at, data |-> payload.data]

(* ------------------------------ reply texts ----------------------------- *)
GuidanceText == "Please send a text message or an image containing payment information."
ParseFailText == "Sorry, I couldn't understand the financial information in your message."
NothingFoundText == "I couldn't find any payment information in your message. Please make sure to include an amount and description."
SaveErrorText == "Sorry, there was an error saving your payment information."
GenericErrorText == "Sorry, there was an error processing your message."
RecordedText == "Payment recorded!"

AmountLine(doc) == "Amount: $" \o TemplateStr(doc.value)
DescriptionLine(doc) == "Description: " \o TemplateStr(doc.description)
CategoryLine(doc) == "Category: " \o TemplateStr(doc.category)
DateLine(doc) == "Date: " \o ToLocaleDateString(doc.payed_at)

\* one optional line of the schema variant's reply
OptionalLine(label, v) == IF Truthy(v) THEN <<label \o TemplateStr(v)>> ELSE <<>>

\* the lines appended for financialData.data (schema variant)
DataLines(doc) ==
    IF doc.data.t = "obj"
    THEN OptionalLine("Location: ", doc.data.location)
         \o OptionalLine("Merchant: ", doc.data.merchant)
         \o OptionalLine("Payment Method: ", doc.data.payment_method)
         \o OptionalLine("Notes: ", doc.data.notes)
    ELSE <<>>

\* the confirmation, as the lines of the text (the code joins them with \n;
\* the leading check-mark emoji is left out)
RecordedLines(v, doc) ==
    <<RecordedText, "", AmountLine(doc), DescriptionLine(doc), CategoryLine(doc)>>
    \o (IF v = "schema"
        THEN <<DateLine(doc)>> \o DataLines(doc)
        ELSE IF Truthy(doc.payed_at) THEN <<DateLine(doc)>> ELSE <<>>)

ReplyLines(v, kind, doc) ==
    CASE kind = "guidance" -> <<GuidanceText>>
      [] kind = "parse_fail" -> <<ParseFailText>>
      [] kind = "nothing_found" -> <<NothingFoundText>>
      [] kind = "save_error" -> <<SaveErrorText>>
      [] kind = "recorded" -> RecordedLines(v, doc)
      [] OTHER -> <<GenericErrorText>>

\* bot.sendMessage(chatId, text): the call and whether it resolved
Reply(chat, kind, lines, ok) == [chat |-> chat, kind |-> kind, lines |-> lines, delivered |-> ok]

\* mutant: the chat id kept in one place shared by all handlers, holding the
\* chat of the latest message received
ReplyChatShared(m) ==
    LET got == {k \in Msgs : pc[k] # "idle"}
    IN msg[CHOOSE k \in got : \A j \in got : j <= k].chat

\* the chat id every reply of handler m is addressed to (msg.chat.id)
ReplyChat(m) == msg[m].chat

(* ------------------------------- inputs --------------------------------- *)
\* an inbound Telegram message: chat id, optional text, optional photo sizes
NoPhoto == [has |-> FALSE, ids |-> <<>>]
Photo(ids) == [has |-> TRUE, ids |-> ids]
NoMsg == [chat |-> "", text |-> JUndef, photo |-> NoPhoto]

Texts == {JUndef, JStr("Spent $25 on lunch today")}
Photos == {NoPhoto, Photo(<<"file_small", "file_large">>)}

\* the shapes of an inbound message: text, photo, both, neither
Shapes == {[text |-> tx, photo |-> ph] : tx \in Texts, ph \in Photos}

\* when several handlers run interleaved, each message comes from a chat of its own
ConcChat(m) == "chat" \o Dec(m)

\* the shapes used when several handlers run interleaved
ConcShapes ==
    {[text |-> JStr("Spent $25 on lunch today"), photo |-> NoPhoto],
     [text |-> JUndef, photo |-> Photo(<<"file_small", "file_large">>)]}

\* what the AI call returns: text that is not JSON, or the text of a JSON document
Garbage == [json |-> FALSE, doc |-> NoDoc]
JsonText(doc) == [json |-> TRUE, doc |-> doc]

\* JSON.parse(text): throws on text that is not JSON
JSONParse(r) == [ok |-> r.json, val |-> r.doc]

DataValues ==
    {DataNull, DataObj(JUndef, JUndef, JUndef, JUndef),
     DataObj(JStr("Downtown"), JStr("Cafe Uno"), JNull, JStr(""))}

Docs ==
    {DocObj(v, d, c, p, dt) :
        v \in {JNull, JUndef, JNum(0), JNum(25)},
        d \in {JNull, JStr("lunch")},
        c \in {JNull, JStr("food")},
        p \in {JNull, JUndef, JStr(""), JStr(ToISOString(0))},
        dt \in DataValues}
    \cup {DocNull, DocPrim(JNum(5)), DocPrim(JNum(0))}

AIResponses == {Garbage} \cup {JsonText(d) : d \in Docs}

\* the responses used when several handlers run interleaved
ConcDocs ==
    {DocObj(JNum(25), JStr("lunch"), JStr("food"), JNull, DataObj(JUndef, JUndef, JUndef, JUndef)),
     DocObj(JNum(150), JStr("electricity"), JStr("utilities"), JStr(ToISOString(0)), DataNull),
     DocObj(JNull, JNull, JNull, JNull, DataObj(JUndef, JUndef, JUndef, JUndef))}

ConcResponses == {Garbage} \cup {JsonText(d) : d \in ConcDocs}

NoContents == [kind |-> "none", text |-> "", file |-> ""]
NoCalls == [getFile |-> 0, fetch |-> 0, generate |-> 0, insert |-> 0, insertErr |-> 0,
            processedAt |-> 0]

(* -------------------------------- state --------------------------------- *)
Init ==
    /\ variant \in Variants
    /\ clock = 1
    /\ crashed = FALSE
    /\ msg = [m \in Msgs |-> NoMsg]
    /\ pc = [m \in Msgs |-> "idle"]
    /\ contents = [m \in Msgs |-> NoContents]
    /\ parsed = [m \in Msgs |-> NoDoc]
    /\ fd = [m \in Msgs |-> NoDoc]
    /\ pending = [m \in Msgs |-> "none"]
    /\ sent = [m \in Msgs |-> <<>>]
    /\ rows = <<>>
    /\ calls = [m \in Msgs |-> NoCalls]

\* where the handler goes first, and the prompt it builds on the way
FirstStep(v, message) ==
    IF v = "index"
    THEN [pc |-> "generate",
          contents |-> [kind |-> "text", text |-> TemplateStr(message.text), file |-> ""]]
    ELSE IF message.photo.has
    THEN [pc |-> "getFile", contents |-> NoContents]
    ELSE IF Truthy(message.text)
    THEN [pc |-> "generate",
          contents |-> [kind |-> "text", text |-> TemplateStr(message.text), file |-> ""]]
    ELSE [pc |-> "reply", contents |-> NoContents]

\* bot.on("message", async (msg) => { ... up to the first await
Receive(m, chats, shapes) ==
    /\ ~crashed
    /\ pc[m] = "idle"
    /\ \E c \in chats, sh \in shapes :
        LET message == [chat |-> c, text |-> sh.text, photo |-> sh.photo]
            first == FirstStep(variant, message)
        IN /\ msg' = [msg EXCEPT ![m] = message]
           /\ pc' = [pc EXCEPT ![m] = first.pc]
           /\ contents' = [contents EXCEPT ![m] = first.contents]
           /\ pending' = [pending EXCEPT ![m] = IF first.pc = "reply" THEN "guidance" ELSE "none"]
    /\ UNCHANGED <<variant, clock, crashed, parsed, fd, sent, rows, calls>>

\* const photo = msg.photo[msg.photo.length - 1]
LargestPhoto(ids) == ids[Len(ids)]

\* await bot.getFile(photo.file_id)
GetFile(m) ==
    /\ ~crashed
    /\ pc[m] = "getFile"
    /\ calls' = [calls EXCEPT ![m].getFile = @ + 1]
    /\ \/ /\ contents' = [contents EXCEPT ![m].file = LargestPhoto(msg[m].photo.ids)]
          /\ pc' = [pc EXCEPT ![m] = "getImage"]
       \/ /\ pc' = [pc EXCEPT ![m] = "catch"]
          /\ UNCHANGED contents
    /\ UNCHANGED <<variant, clock, crashed, msg, parsed, fd, pending, sent, rows>>

\* await getImageAsBase64(fileUrl), then the [prompt, image] pair is built
GetImageAsBase64(m) ==
    /\ ~crashed
    /\ pc[m] = "getImage"
    /\ calls' = [calls EXCEPT ![m].fetch = @ + 1]
    /\ \/ /\ contents' = [contents EXCEPT ![m].kind = "image"]
          /\ pc' = [pc EXCEPT ![m] = "generate"]
       \/ /\ pc' = [pc EXCEPT ![m] = "catch"]
          /\ UNCHANGED contents
    /\ UNCHANGED <<variant, clock, crashed, msg, parsed, fd, pending, sent, rows>>

\* the await of generateContent, then JSON.parse and the synchronous head of
\* processFinancialData (the test on value and the payed_at fallback)
GenerateContent(m, responses) ==
    /\ ~crashed
    /\ pc[m] = "generate"
    /\ \/ /\ calls' = [calls EXCEPT ![m].generate = @ + 1]
          /\ pc' = [pc EXCEPT ![m] = "catch"]
          /\ UNCHANGED <<parsed, fd, pending>>
       \/ \E r \in responses :
            LET p == JSONParse(r) IN
            IF ~p.ok
            THEN /\ calls' = [calls EXCEPT ![m].generate = @ + 1]
                 /\ pending' = [pending EXCEPT ![m] = "parse_fail"]
                 /\ pc' = [pc EXCEPT ![m] = "reply"]
                 /\ UNCHANGED <<parsed, fd>>
            ELSE /\ calls' = [calls EXCEPT ![m].generate = @ + 1, ![m].processedAt = clock]
                 /\ parsed' = [parsed EXCEPT ![m] = p.val]
                 /\ IF ShouldInsert(p.val)
                    THEN /\ fd' = [fd EXCEPT ![m] = Prepare(variant, p.val, clock)]
                         /\ pc' = [pc EXCEPT ![m] = "insert"]
                         /\ UNCHANGED pending
                    ELSE /\ fd' = [fd EXCEPT ![m] = p.val]
                         /\ pending' = [pending EXCEPT ![m] = "nothing_found"]
                         /\ pc' = [pc EXCEPT ![m] = "reply"]
    /\ UNCHANGED <<variant, clock, crashed, msg, contents, sent, rows>>

\* mutant: the store's error ignored
AfterInsertIgnoresError(error) == "recorded"

\* if (error) { ...error saving... return; } ...Payment recorded...
AfterInsert(error) == IF error THEN "save_error" ELSE "recorded"

\* await supabase.from("payments").insert([...]) and the test on error: the
\* store persists the row, or reports an error, or the call rejects
Insert(m) ==
    /\ ~crashed
    /\ pc[m] = "insert"
    /\ \/ /\ calls' = [calls EXCEPT ![m].insert = @ + 1]
          /\ rows' = Append(rows, Row(m, clock, InsertPayload(fd[m])))
          /\ pending' = [pending EXCEPT ![m] = AfterInsert(FALSE)]
          /\ pc' = [pc EXCEPT ![m] = "reply"]
       \/ /\ calls' = [calls EXCEPT ![m].insert = @ + 1, ![m].insertErr = @ + 1]
          /\ pending' = [pending EXCEPT ![m] = AfterInsert(TRUE)]
          /\ pc' = [pc EXCEPT ![m] = "reply"]
          /\ UNCHANGED rows
       \/ /\ calls' = [calls EXCEPT ![m].insert = @ + 1]
          /\ pc' = [pc EXCEPT ![m] = "catch"]
          /\ UNCHANGED <<rows, pending>>
    /\ UNCHANGED <<variant, clock, crashed, msg, contents, parsed, fd, sent>>

\* an await bot.sendMessage(...) inside the try block; a rejection goes to catch
SendReply(m) ==
    /\ ~crashed
    /\ pc[m] = "reply"
    /\ \E ok \in BOOLEAN :
        /\ sent' = [sent EXCEPT ![m] =
                      Append(@, Reply(ReplyChat(m), pending[m],
                                      ReplyLines(variant, pending[m], fd[m]), ok))]
        /\ pc' = [pc EXCEPT ![m] = IF ok THEN "done" ELSE "catch"]
    /\ UNCHANGED <<variant, clock, crashed, msg, contents, parsed, fd, pending, rows, calls>>

\* catch (error) { await bot.sendMessage(chat, generic error) }: a rejection of
\* this send leaves the async handler as an unhandled rejection, which ends the
\* process or not, depending on the Node version
CatchSend(m) ==
    /\ ~crashed
    /\ pc[m] = "catch"
    /\ \E ok \in BOOLEAN :
        /\ sent' = [sent EXCEPT ![m] =
                      Append(@, Reply(ReplyChat(m), "generic_error",
                                      ReplyLines(variant, "generic_error", fd[m]), ok))]
        /\ IF ok
           THEN /\ pc' = [pc EXCEPT ![m] = "done"]
                /\ UNCHANGED crashed
           ELSE /\ pc' = [pc EXCEPT ![m] = "escaped"]
                /\ crashed' \in BOOLEAN
    /\ UNCHANGED <<variant, clock, msg, contents, parsed, fd, pending, rows, calls>>

\* the wall clock advances
Tick ==
    /\ clock < MaxClock
    /\ clock' = clock + 1
    /\ UNCHANGED <<variant, crashed, msg, pc, contents, parsed, fd, pending, sent, rows, calls>>

\* one message handled on its own, over every response the AI call can give
Next ==
    \/ Tick
    \/ \E m \in Solo : Receive(m, Chats, Shapes)
    \/ \E m \in Solo : GetFile(m)
    \/ \E m \in Solo : GetImageAsBase64(m)
    \/ \E m \in Solo : GenerateContent(m, AIResponses)
    \/ \E m \in Solo : Insert(m)
    \/ \E m \in Solo : SendReply(m)
    \/ \E m \in Solo : CatchSend(m)

Spec == Init /\ [][Next]_vars

\* several messages handled at once, interleaved at every await
ConcNext ==
    \/ \E m \in Msgs : Receive(m, {ConcChat(m)}, ConcShapes)
    \/ \E m \in Msgs : GetFile(m)
    \/ \E m \in Msgs : GetImageAsBase64(m)
    \/ \E m \in Msgs : GenerateContent(m, ConcResponses)
    \/ \E m \in Msgs : Insert(m)
    \/ \E m \in Msgs : SendReply(m)
    \/ \E m \in Msgs : CatchSend(m)

ConcInit == Init /\ variant = "schema"

ConcSpec == ConcInit /\ [][ConcNext]_vars

(* ------------------------------- claims --------------------------------- *)
Finished(m) == pc[m] \in {"done", "escaped"}

\* the positions in sent[m] of the sendMessage calls that carry the given text
SendsOf(m, lines) == {i \in 1 .. Len(sent[m]) : sent[m][i].lines = lines}

\* the rows of the table inserted by handler m
RowsOf(m) == {i \in 1 .. Len(rows) : rows[i].msg = m}

\* the parsed result is a record with a monetary value (neither null nor absent)
HasValue(doc) == doc.t = "obj" /\ doc.value.t \notin {"null", "undef"}

\* C1: once a handler has finished, it has made exactly one sendMessage call.
\* (Fails: a send that rejects inside try is followed by the send of catch.)
C1_ExactlyOneReply ==
    \A m \in Msgs : Finished(m) => Len(sent[m]) = 1

\* the row is the parsed record, payed_at replaced by the time `at` when
\* `defaulted` says so
RowMatches(row, doc, defaulted, at) ==
    /\ row.value = doc.value
    /\ row.description = doc.description
    /\ row.category = doc.category
    /\ row.data = doc.data
    /\ row.payed_at = IF defaulted THEN JStr(ToISOString(at)) ELSE doc.payed_at

\* the confirmation shows value, description and category as the parsed record has them
ShowsRecord(lines, doc) ==
    /\ lines[1] = RecordedText
    /\ \E i \in 1 .. Len(lines) : lines[i] = "Amount: $" \o TemplateStr(doc.value)
    /\ \E i \in 1 .. Len(lines) : lines[i] = "Description: " \o TemplateStr(doc.description)
    /\ \E i \in 1 .. Len(lines) : lines[i] = "Category: " \o TemplateStr(doc.category)

RecordedSends(m) == {i \in 1 .. Len(sent[m]) : sent[m][i].kind = "recorded"}

\* C2 as stated: a parsed record with a value whose insert succeeded has exactly
\* one row equal to the record, payed_at replaced by the current time exactly
\* when it was null (or omitted) in the schema variant, and one confirmation
\* showing value, description and category.
C2_Original ==
    \A m \in Msgs :
        (HasValue(parsed[m]) /\ RowsOf(m) # {}) =>
            /\ Cardinality(RowsOf(m)) = 1
            /\ \A i \in RowsOf(m) :
                 RowMatches(rows[i], parsed[m],
                            variant = "schema" /\ parsed[m].payed_at.t \in {"null", "undef"},
                            calls[m].processedAt)
            /\ Finished(m) =>
                 /\ Cardinality(RecordedSends(m)) = 1
                 /\ \A i \in RecordedSends(m) : ShowsRecord(sent[m][i].lines, parsed[m])

\* C2 amended: the same, with payed_at replaced by the current time whenever it
\* was falsy on input (null, omitted or the empty string) in the schema variant.
C2_Amended ==
    \A m \in Msgs :
        (HasValue(parsed[m]) /\ RowsOf(m) # {}) =>
            /\ Cardinality(RowsOf(m)) = 1
            /\ \A i \in RowsOf(m) :
                 RowMatches(rows[i], parsed[m],
                            variant = "schema" /\ ~Truthy(parsed[m].payed_at),
                            calls[m].processedAt)
            /\ Finished(m) =>
                 /\ Cardinality(RecordedSends(m)) = 1
                 /\ \A i \in RecordedSends(m) : ShowsRecord(sent[m][i].lines, parsed[m])

C2_Witness ==
    /\ variant = "schema"
    /\ pc[1] = "done"
    /\ parsed[1].value = JNum(25)
    /\ parsed[1].payed_at = JNull
    /\ Len(rows) = 1
    /\ calls[1].processedAt = MaxClock
    /\ rows[1].payed_at = JStr(ToISOString(MaxClock))
    /\ Len(sent[1]) = 1
    /\ sent[1][1].kind = "recorded"

\* C3: when the store reports an error for a handler's insert, that handler
\* never sends the confirmation, persists no row, issues no second insert and,
\* once finished, has sent the "error saving" text exactly once.
C3_InsertError ==
    \A m \in Msgs :
        calls[m].insertErr > 0 =>
            /\ RecordedSends(m) = {}
            /\ RowsOf(m) = {}
            /\ calls[m].insert = 1
            /\ Finished(m) => Cardinality(SendsOf(m, <<SaveErrorText>>)) = 1

C3_Witness ==
    /\ pc[1] = "done"
    /\ calls[1].insertErr = 1
    /\ Len(sent[1]) = 1
    /\ sent[1][1].lines = <<SaveErrorText>>
    /\ sent[1][1].delivered

\* C4: when the AI text fails JSON.parse, the finished handler has made exactly
\* one sendMessage call, with the "couldn't understand" text, and no insert.
\* (Fails: when that send rejects, catch sends the generic error text too.)
C4_ParseFailOneReply ==
    \A m \in Msgs :
        (pending[m] = "parse_fail" /\ Finished(m)) =>
            /\ Len(sent[m]) = 1
            /\ sent[m][1].lines = <<ParseFailText>>
            /\ calls[m].insert = 0

\* C5: when the parsed record's value is null, no insert is issued and the
\* finished handler has sent the "couldn't find any payment information" text
\* exactly once.
C5_NullValue ==
    \A m \in Msgs :
        (parsed[m].t = "obj" /\ parsed[m].value = JNull) =>
            /\ calls[m].insert = 0
            /\ RowsOf(m) = {}
            /\ Finished(m) => Cardinality(SendsOf(m, <<NothingFoundText>>)) = 1

C5_Witness ==
    /\ pc[1] = "done"
    /\ parsed[1].t = "obj"
    /\ parsed[1].value = JNull
    /\ Len(sent[1]) = 1
    /\ sent[1][1].lines = <<NothingFoundText>>

\* C6: an insert is issued only for a parsed record with a non-null value: a
\* record without a value member, or a parsed value that is no record, gets
\* the "nothing found" reply and no insert.
\* (Fails: value !== null is true of an absent value.)
C6_InsertIffValue ==
    \A m \in Msgs :
        parsed[m].t # "none" =>
            /\ calls[m].insert > 0 => HasValue(parsed[m])
            /\ (~HasValue(parsed[m]) /\ Finished(m)) => SendsOf(m, <<NothingFoundText>>) # {}

\* C7: a message with neither text nor photo gets the guidance reply and
\* nothing else: no AI call, no insert.
\* (Fails in index.js, which has no such test.)
C7_GuidanceAndStop ==
    \A m \in Msgs :
        (pc[m] # "idle" /\ ~Truthy(msg[m].text) /\ ~msg[m].photo.has) =>
            /\ calls[m].generate = 0
            /\ calls[m].insert = 0
            /\ Finished(m) => SendsOf(m, <<GuidanceText>>) # {}

\* C8: no exception leaves a handler, and the process keeps serving messages.
\* (Fails: the send inside catch is itself unguarded.)
C8_NothingEscapes ==
    /\ \A m \in Msgs : pc[m] # "escaped"
    /\ ~crashed

\* C9: with handlers interleaved at every await, each handler replies to the
\* chat of its own message, inserts at most one row, and that row and its
\* confirmation carry the fields of its own parsed result.
C9_Isolation ==
    \A m \in Msgs :
        /\ \A i \in 1 .. Len(sent[m]) :
             /\ sent[m][i].chat = msg[m].chat
             /\ sent[m][i].kind = "recorded" => ShowsRecord(sent[m][i].lines, parsed[m])
        /\ Cardinality(RowsOf(m)) <= 1
        /\ \A i \in RowsOf(m) :
             RowMatches(rows[i], parsed[m], variant = "schema" /\ ~Truthy(parsed[m].payed_at),
                        calls[m].processedAt)

C9_Witness ==
    /\ Len(rows) = 2
    /\ rows[1].msg = 2
    /\ rows[2].msg = 1
    /\ rows[1].value # rows[2].value
    /\ pc[1] = "done"
    /\ pc[2] = "done"
    /\ msg[1].photo.has
    /\ ~msg[2].photo.has
    /\ sent[1][1].kind = "recorded"
    /\ sent[2][1].kind = "recorded"

\* C10: a handler whose row was inserted sends nothing but the confirmation;
\* in particular never the generic error text.
\* (Fails: the confirmation's own send may reject, and catch then reports an error.)
C10_ReplyAgreesWithStore ==
    \A m \in Msgs :
        RowsOf(m) # {} => \A i \in 1 .. Len(sent[m]) : sent[m][i].kind = "recorded"

====
